---------------------------- MODULE Spec2Model ----------------------------
(***************************************************************************)
(* The persisted theme mechanism of the template: the pinia setup store    *)
(* `themeStore` (app/stores/theme), the client plugin that reflects the    *)
(* store's `current` onto the document root (app/plugins/theme.client.ts)  *)
(* and the persistence the store asks for with `persist: true`.            *)
(*                                                                         *)
(* The store's ref, the computed `isdark`, the two watchers (the plugin's  *)
(* `watch` and the `$subscribe` watcher that `persist: true` installs) and *)
(* the scheduler queue they are flushed from are modelled with the         *)
(* semantics the calls in the source have: a ref's setter triggers only    *)
(* when the value changed, a watcher without a `flush` option is a "pre"   *)
(* watcher whose job is queued (once) and run when the queue is flushed    *)
(* after the synchronous run that mutated the store, and a watcher with a  *)
(* getter source calls back only when the getter's value changed.          *)
(***************************************************************************)
EXTENDS Integers, Sequences, FiniteSets, TLC

VARIABLES
    storage,       \* client-side storage: key -> serialized entry
    dataTheme,     \* the data-theme attribute of document.documentElement
    constructed,   \* useThemeStore() has built the store on this page
    current,       \* the store's ref `current`
    isdarkValue,   \* cached value of the computed `isdark`
    isdarkDirty,   \* the computed must be re-evaluated on its next read
    watchOld,      \* the plugin watcher's oldValue
    queue,         \* the scheduler's queue of pending watcher jobs
    flushing,      \* flushJobs is running (no user code runs meanwhile)
    calls,         \* history: the mutating calls made on this page
    cbRuns,        \* history: runs of the plugin's watcher callback
    nWrites,       \* history: setItem calls made on this page
    nFlushes,      \* history: runs of the plugin watcher's job
    prevSession,   \* history: how the previous page ended
    nReloads,      \* history: number of reloads
    storageOk      \* the storage can be read and written (it throws otherwise)

vars == <<storage, dataTheme, constructed, current, isdarkValue, isdarkDirty,
          watchOld, queue, flushing, calls, cbRuns, nWrites, nFlushes,
          prevSession, nReloads, storageOk>>

-----------------------------------------------------------------------------
(* Bounds of the model *)

MaxCalls == 3

MaxReloads == 2

-----------------------------------------------------------------------------
(* Values *)

\* 'nord' | 'dracula'
Themes == {"nord", "dracula"}

\* mutant: the ref starts at the other theme
DefaultThemeDark == "dracula"

\* ref<'nord' | 'dracula'>('nord')
DefaultTheme == "nord"

\* defineStore('themeStore', ...): the store's $id, the default storage key
StoreId == "themeStore"

\* htmlAttrs: { 'data-theme': 'light' }
InitialAttr == "light"

\* `current` before the store exists on the page
Undefined == "undefined"

\* the watcher's oldValue before its first run
INITIAL_WATCHER_VALUE == "initial"

\* mutant: the store is defined without the persist option
persistOff == FALSE

\* the `persist` option of the store
persist == TRUE

\* mutant: the watch is registered without { immediate: true }
immediateOff == FALSE

\* the `immediate` option of the plugin's watch
immediate == TRUE

\* mutant: the watch is registered with { flush: 'sync' }
watchFlushSync == "sync"

\* the plugin's watch names no `flush`: a "pre" watcher, its job is queued
watchFlush == "pre"

\* `persist: true` names no `flush` for the $subscribe watcher either
subscribeFlush == "pre"

-----------------------------------------------------------------------------
(* Serialized entries.  A store state is a record; its serialized form is  *)
(* the JSON object text, modelled as the set of its <<key, value>> members.*)

\* mutant: the computed is kept in the state with the ref
StoreStateWithGetters(cur) == [current |-> cur, isdark |-> (cur = "dracula")]

\* the state pinia keeps for the store: the refs the setup returns
\* (`current`), not the computed (`isdark`) nor the functions
StoreState(cur) == [current |-> cur]

\* serializer.serialize: JSON.stringify(state)
serialize(state) == {<<k, state[k]>> : k \in DOMAIN state}

\* serializer.deserialize, then store.$patch: each member of the entry is
\* assigned to the state key of its name; a key the entry lacks is kept
hydrate(cur, entry) ==
    IF \E m \in entry : m[1] = "current"
    THEN (CHOOSE m \in entry : m[1] = "current")[2]
    ELSE cur

NoStorage == [k \in {} |-> {}]

getItem(st, key) == IF key \in DOMAIN st THEN st[key] ELSE {}

hasItem(st, key) == key \in DOMAIN st

setItem(st, key, entry) == [k \in DOMAIN st \cup {key} |-> IF k = key THEN entry ELSE st[k]]

\* what a page may find in storage when it starts: nothing, an entry written
\* by this store, an object without `current`, or an entry written by
\* something else (an older build, the user)
InitialStorages ==
    {NoStorage}
    \cup {setItem(NoStorage, StoreId, serialize(StoreState(t))) : t \in Themes}
    \cup {setItem(NoStorage, StoreId, {})}
    \cup {setItem(NoStorage, StoreId, {<<"current", InitialAttr>>})}


-----------------------------------------------------------------------------
(* Reactivity *)

\* mutant: every assignment counts as a change
hasChangedAlways(value, oldValue) == TRUE

\* a ref's setter and a getter-source watcher compare with Object.is
hasChanged(value, oldValue) == value # oldValue

\* queueJob: a job already in the queue is not queued again
queueJob(q, job) == IF \E i \in 1..Len(q) : q[i] = job THEN q ELSE Append(q, job)

\* mutant: the watch source was read out of the store once and is not
\* reactive, so a change of current does not trigger the plugin's watcher
queueWatchersNoTheme(q) ==
    IF persist /\ subscribeFlush = "pre" THEN queueJob(q, "persist") ELSE q

\* the jobs of the "pre" watchers subscribed to `current`, in the order the
\* watchers were created: the $subscribe watcher, then the plugin's
queueWatchers(q) ==
    LET q1 == IF persist /\ subscribeFlush = "pre" THEN queueJob(q, "persist") ELSE q
    IN  IF watchFlush = "pre" THEN queueJob(q1, "theme") ELSE q1

\* mutant: the getter compares with the light theme
isdarkGetterNord(cur) == cur = "nord"

\* () => current.value === 'dracula'
isdarkGetter(cur) == cur = "dracula"

\* reading store.isdark: the cached value unless a dependency triggered
isdark == IF isdarkDirty THEN isdarkGetter(current) ELSE isdarkValue

\* mutant: the branches of the conditional are swapped
toggledSwapped(cur) == IF cur = "nord" THEN "nord" ELSE "dracula"

\* current.value === 'nord' ? 'dracula' : 'nord'
toggled(cur) == IF cur = "nord" THEN "dracula" ELSE "nord"

\* mutant: the job writes the value captured by the first call instead of
\* the state it finds when it runs
persistStateCaptured(st, cur) ==
    IF storageOk /\ calls # <<>>
    THEN setItem(st, StoreId, serialize(StoreState(calls[1].after)))
    ELSE st

\* mutant: the entry is written under another key than the one read
persistStateWrongKey(st, cur) ==
    IF storageOk THEN setItem(st, "theme", serialize(StoreState(cur))) ELSE st

\* the $subscribe callback: persistState writes the serialized state; a
\* storage that throws is caught and nothing is written
persistState(st, cur) ==
    IF storageOk THEN setItem(st, StoreId, serialize(StoreState(cur))) ELSE st

\* mutant: the exception of a failing read is not caught: the setup's
\* state is lost with the store
hydrateStoreUncaught(cur, st) ==
    IF storageOk
    THEN (IF hasItem(st, StoreId) THEN hydrate(cur, getItem(st, StoreId)) ELSE cur)
    ELSE Undefined

\* hydrateStore at the store's creation: the item, when there is one, is
\* deserialized and patched into the state; a storage that throws is caught
\* and the state is kept
hydrateStore(cur, st) ==
    IF storageOk /\ hasItem(st, StoreId)
    THEN hydrate(cur, getItem(st, StoreId))
    ELSE cur

\* the plugin watcher's job: the callback runs when the getter's value
\* differs from the value of the previous run
themeJobCalls(cur, old) == hasChanged(cur, old)

\* mutant: the callback writes a fixed theme instead of newTheme
setAttributeDefault(newTheme) == DefaultTheme

\* (newTheme) => document.documentElement.setAttribute('data-theme', newTheme)
setAttribute(newTheme) == newTheme

-----------------------------------------------------------------------------
(* Initial state: a page that has loaded and run no plugin yet *)

NoSession == [mutated |-> FALSE, pending |-> FALSE, wrote |-> FALSE, cur |-> Undefined]

Init ==
    /\ storage \in InitialStorages
    /\ dataTheme = InitialAttr
    /\ constructed = FALSE
    /\ current = Undefined
    /\ isdarkValue = FALSE
    /\ isdarkDirty = TRUE
    /\ watchOld = INITIAL_WATCHER_VALUE
    /\ queue = <<>>
    /\ flushing = FALSE
    /\ calls = <<>>
    /\ cbRuns = 0
    /\ nWrites = 0
    /\ nFlushes = 0
    /\ prevSession = NoSession
    /\ nReloads = 0
    /\ storageOk = TRUE

-----------------------------------------------------------------------------
(* Operations *)

\* mutant: the state is not hydrated when the store is created
useThemeStoreUnhydrated(st) == DefaultTheme

\* useThemeStore() on a page that has no store yet: the setup function runs,
\* then the persistence plugin hydrates the state from storage (an absent
\* item is skipped) and subscribes to the store
useThemeStore(st) ==
    IF persist THEN hydrateStore(DefaultTheme, st) ELSE DefaultTheme

\* the plugin: defineNuxtPlugin(() => { const themeStore = useThemeStore();
\* watch(() => themeStore.current, cb, { immediate: true }) })
ThemePlugin ==
    /\ ~constructed
    /\ constructed' = TRUE
    /\ current' = useThemeStore(storage)
    /\ IF immediate
       THEN /\ dataTheme' = setAttribute(current')
            /\ cbRuns' = cbRuns + 1
       ELSE UNCHANGED <<dataTheme, cbRuns>>
    /\ watchOld' = current'
    /\ isdarkDirty' = TRUE
    /\ UNCHANGED <<storage, isdarkValue, queue, flushing, calls, nWrites,
                   nFlushes, prevSession, nReloads, storageOk>>

\* current.value = v: the ref's setter.  An unchanged value triggers
\* nothing; a changed one marks the computed dirty and triggers the
\* watchers: a "sync" watcher runs its job in the setter, a "pre" watcher's
\* job is queued.
refSet(v) ==
    /\ current' = v
    /\ IF hasChanged(v, current)
       THEN /\ isdarkDirty' = TRUE
            /\ queue' = queueWatchers(queue)
            /\ IF persist /\ subscribeFlush = "sync"
               THEN /\ storage' = persistState(storage, v)
                    /\ nWrites' = IF storageOk THEN nWrites + 1 ELSE nWrites
               ELSE UNCHANGED <<storage, nWrites>>
            /\ IF watchFlush = "sync"
               THEN /\ nFlushes' = nFlushes + 1
                    /\ watchOld' = v
                    /\ IF themeJobCalls(v, watchOld)
                       THEN dataTheme' = setAttribute(v) /\ cbRuns' = cbRuns + 1
                       ELSE UNCHANGED <<dataTheme, cbRuns>>
               ELSE UNCHANGED <<nFlushes, watchOld, dataTheme, cbRuns>>
       ELSE UNCHANGED <<isdarkDirty, queue, storage, nWrites, nFlushes,
                        watchOld, dataTheme, cbRuns>>

\* user code may call the store's actions once the store exists, in a
\* synchronous run or between runs, never while the scheduler is flushing
CanCall == constructed /\ ~flushing /\ Len(calls) < MaxCalls

\* history: the call, the value of current before and after it and the
\* attribute before it
Called(op, arg) ==
    /\ calls' = Append(calls, [op |-> op, arg |-> arg, before |-> current,
                               after |-> current', attrBefore |-> dataTheme])
    /\ UNCHANGED <<constructed, isdarkValue, flushing, prevSession, nReloads,
                   storageOk>>

\* setTheme(theme): current.value = theme
setTheme(theme) ==
    /\ CanCall
    /\ refSet(theme)
    /\ Called("setTheme", theme)

\* toggleTheme(): current.value = current.value === 'nord' ? 'dracula' : 'nord'
toggleTheme ==
    /\ CanCall
    /\ refSet(toggled(current))
    /\ Called("toggleTheme", "-")

\* user code reads store.isdark: the computed re-evaluates when dirty
ReadIsdark ==
    /\ constructed
    /\ ~flushing
    /\ isdarkDirty
    /\ isdarkValue' = isdark
    /\ isdarkDirty' = FALSE
    /\ UNCHANGED <<storage, dataTheme, constructed, current, watchOld, queue,
                   flushing, calls, cbRuns, nWrites, nFlushes, prevSession,
                   nReloads, storageOk>>

\* the scheduler runs the $subscribe watcher's job: the entry is written
PersistJob ==
    /\ queue # <<>> /\ Head(queue) = "persist"
    /\ storage' = persistState(storage, current)
    /\ nWrites' = IF storageOk THEN nWrites + 1 ELSE nWrites
    /\ queue' = Tail(queue)
    /\ flushing' = (queue' # <<>>)
    /\ UNCHANGED <<dataTheme, constructed, current, isdarkValue, isdarkDirty,
                   watchOld, calls, cbRuns, nFlushes, prevSession, nReloads,
                   storageOk>>

\* the scheduler runs the plugin watcher's job
ThemeJob ==
    /\ queue # <<>> /\ Head(queue) = "theme"
    /\ nFlushes' = nFlushes + 1
    /\ watchOld' = current
    /\ IF themeJobCalls(current, watchOld)
       THEN dataTheme' = setAttribute(current) /\ cbRuns' = cbRuns + 1
       ELSE UNCHANGED <<dataTheme, cbRuns>>
    /\ queue' = Tail(queue)
    /\ flushing' = (queue' # <<>>)
    /\ UNCHANGED <<storage, constructed, current, isdarkValue, isdarkDirty,
                   calls, nWrites, prevSession, nReloads, storageOk>>

\* the page is reloaded (or a fresh application is built against the same
\* storage): memory, pending jobs and the document are gone, storage stays
Reload ==
    /\ constructed
    /\ nReloads < MaxReloads
    /\ nReloads' = nReloads + 1
    /\ prevSession' = [mutated |-> calls # <<>>, pending |-> queue # <<>>,
                       wrote |-> nWrites > 0, cur |-> current]
    /\ dataTheme' = InitialAttr
    /\ constructed' = FALSE
    /\ current' = Undefined
    /\ isdarkValue' = FALSE
    /\ isdarkDirty' = TRUE
    /\ watchOld' = INITIAL_WATCHER_VALUE
    /\ queue' = <<>>
    /\ flushing' = FALSE
    /\ calls' = <<>>
    /\ cbRuns' = 0
    /\ nWrites' = 0
    /\ nFlushes' = 0
    /\ UNCHANGED <<storage, storageOk>>

Next ==
    \/ ThemePlugin
    \/ \E theme \in Themes : setTheme(theme)
    \/ toggleTheme
    \/ ReadIsdark
    \/ PersistJob
    \/ ThemeJob
    \/ Reload

Spec == Init /\ [][Next]_vars

\* the storage becomes unavailable (its reads and writes throw) or
\* available again
StorageFlip ==
    /\ storageOk' = ~storageOk
    /\ UNCHANGED <<storage, dataTheme, constructed, current, isdarkValue,
                   isdarkDirty, watchOld, queue, flushing, calls, cbRuns,
                   nWrites, nFlushes, prevSession, nReloads>>

NextStorage == Next \/ StorageFlip

\* the program with a storage that may fail
SpecStorage == Init /\ [][NextStorage]_vars

\* values a caller that bypasses the type checker may pass to setTheme
UntypedValues == {InitialAttr}

NextUntyped == Next \/ \E value \in UntypedValues : setTheme(value)

\* the program with callers that pass setTheme values outside its type
SpecUntyped == Init /\ [][NextUntyped]_vars

\* the scheduler flushes its queue in a microtask: a queued job runs
SpecLive == Spec /\ WF_vars(PersistJob) /\ WF_vars(ThemeJob)

-----------------------------------------------------------------------------
(* Conditions used below *)

\* no reaction is pending: the queue has been flushed
Quiescent == queue = <<>> /\ ~flushing

\* the `current` member of the stored entry, or Undefined
persistedCurrent == hydrate(Undefined, getItem(storage, StoreId))

LastCall == calls[Len(calls)]

PrevCall == calls[Len(calls) - 1]

\* the calls made on this page that changed current
ChangingCalls == {i \in 1..Len(calls) : calls[i].before # calls[i].after}

\* this step is a call of setTheme or toggleTheme
CallStep == Len(calls') = Len(calls) + 1

-----------------------------------------------------------------------------
(* C1 *)

\* C1 as stated: once setTheme(t) has returned, current equals t and the
\* data-theme attribute equals t.
C1_AsStated ==
    (calls # <<>> /\ LastCall.op = "setTheme")
        => (current = LastCall.arg /\ dataTheme = LastCall.arg)

\* C1, amended: once setTheme(t) has returned, current equals t; the
\* data-theme attribute equals t once the scheduler has flushed the watcher
\* job the call queued (no reaction is pending), not yet when the call
\* returns.
C1_SetTheme ==
    (calls # <<>> /\ LastCall.op = "setTheme")
        => (current = LastCall.arg /\ (Quiescent => dataTheme = LastCall.arg))

C1_Witness ==
    /\ calls # <<>> /\ LastCall.op = "setTheme"
    /\ LastCall.before # LastCall.arg
    /\ Quiescent
    /\ current = LastCall.arg /\ dataTheme = LastCall.arg

-----------------------------------------------------------------------------
(* C2 *)

\* C2 as stated: no state is reachable in which a mutating call has
\* returned and the attribute does not reflect the new current.
C2_AsStated == (constructed /\ calls # <<>>) => dataTheme = current

\* C2, amended: the plugin watcher's reaction does not run inside the
\* mutating call.  A call of setTheme or toggleTheme leaves data-theme as
\* it was and, when it changed current, leaves the watcher's job pending in
\* the scheduler queue; when the flush of the queue completes, the
\* attribute equals current.
C2_Deferred ==
    [][ /\ CallStep =>
            /\ dataTheme' = dataTheme
            /\ current' # current => \E i \in 1..Len(queue') : queue'[i] = "theme"
        /\ (constructed' /\ ~Quiescent /\ Quiescent') => dataTheme' = current'
      ]_vars

C2_Witness ==
    /\ calls # <<>>
    /\ current # LastCall.before
    /\ dataTheme = LastCall.attrBefore /\ dataTheme # current
    /\ ~Quiescent

-----------------------------------------------------------------------------
(* C3 *)

-----------------------------------------------------------------------------
(* C4 *)

\* C4 as stated: setTheme(t) while current equals t makes the callback run
\* again and the entry be written again.
C4_AsStated ==
    (/\ constructed /\ Quiescent
     /\ Len(calls) = 1 /\ LastCall.op = "setTheme"
     /\ LastCall.arg = LastCall.before)
        => (cbRuns = 2 /\ nWrites = 1)

\* C4, amended: setTheme(t) while current already equals t is a silent
\* no-op: the ref's setter sees no change and triggers nothing, so the call
\* queues no job, the plugin's callback does not run and the entry is not
\* written.
C4_NoOp ==
    [][ (/\ CallStep
         /\ calls'[Len(calls')].op = "setTheme"
         /\ calls'[Len(calls')].arg = current)
            => UNCHANGED <<current, queue, storage, dataTheme, watchOld,
                           cbRuns, nWrites, nFlushes>>
      ]_vars

C4_Witness ==
    /\ constructed /\ Quiescent
    /\ Len(calls) = 1 /\ LastCall.op = "setTheme"
    /\ LastCall.arg = LastCall.before
    /\ cbRuns = 1 /\ nWrites = 0 /\ nFlushes = 0

-----------------------------------------------------------------------------
(* C5 *)

\* C5 as stated: after a page on which setTheme or toggleTheme was called,
\* a freshly constructed store has the current the old page ended with, at
\* whatever moment the reload happened.
C5_AsStated ==
    (constructed /\ calls = <<>> /\ prevSession.mutated)
        => current = prevSession.cur

\* C5, amended: after a page on which setTheme or toggleTheme was called, a
\* freshly constructed store has the current the old page ended with,
\* provided the scheduler had flushed the pending jobs before the reload
\* (the entry is written by the $subscribe job, not inside the call).
C5_RoundTrip ==
    (constructed /\ calls = <<>> /\ prevSession.mutated /\ ~prevSession.pending)
        => current = prevSession.cur

C5_Witness ==
    /\ constructed /\ calls = <<>>
    /\ prevSession.mutated /\ ~prevSession.pending /\ prevSession.wrote
    /\ prevSession.cur = "dracula" /\ current = "dracula"

-----------------------------------------------------------------------------
(* C6 *)

\* C6 as stated: whenever no mutating call is in progress, the entry stored
\* under 'themeStore' holds the store's current.
C6_AsStated == (constructed /\ ~flushing) => persistedCurrent = current

\* C6, amended: the entry is written by the $subscribe job when the
\* scheduler flushes after a call that changed current, and nothing is
\* written at construction.  Whenever the store exists and no reaction is
\* pending, the entry under 'themeStore' holds the store's current, or
\* nothing has been written on this page, the storage holds no `current`
\* and current is the default 'nord'.
C6_WriteBehind ==
    (constructed /\ Quiescent) =>
        \/ hasItem(storage, StoreId) /\ persistedCurrent = current
        \/ nWrites = 0 /\ persistedCurrent = Undefined /\ current = "nord"

C6_Witness ==
    /\ constructed /\ Quiescent
    /\ calls # <<>> /\ LastCall.before # LastCall.after
    /\ nWrites >= 1
    /\ persistedCurrent = current

-----------------------------------------------------------------------------
(* C7 *)

\* C7: a store constructed when storage holds no entry for it has
\* current = 'nord', and the plugin's registration sets data-theme to 'nord'.
C7_Default ==
    (constructed /\ calls = <<>> /\ ~hasItem(storage, StoreId))
        => (current = "nord" /\ dataTheme = "nord" /\ cbRuns = 1)

C7_Witness ==
    /\ constructed /\ calls = <<>> /\ ~hasItem(storage, StoreId)
    /\ current = "nord" /\ dataTheme = "nord"

-----------------------------------------------------------------------------
(* C8 *)

\* C8: after two consecutive calls of toggleTheme (and their reactions),
\* current, the data-theme attribute and the persisted value are those of
\* the state before the first of the two calls.
C8_Involution ==
    (/\ constructed /\ Quiescent
     /\ Len(calls) >= 2
     /\ LastCall.op = "toggleTheme" /\ PrevCall.op = "toggleTheme")
        => /\ current = PrevCall.before
           /\ dataTheme = PrevCall.before
           /\ persistedCurrent = PrevCall.before

-----------------------------------------------------------------------------
(* C9 *)

\* C9: in every state of a constructed store, also while reactions are
\* pending, a read of isdark yields true iff current = 'dracula', and the
\* persisted entry has no isdark member.
C9_Isdark ==
    constructed =>
        /\ isdark <=> current = "dracula"
        /\ \A m \in getItem(storage, StoreId) : m[1] # "isdark"

C9_Witness ==
    /\ constructed /\ ~Quiescent
    /\ ~isdarkDirty /\ isdarkValue
    /\ current = "dracula"
    /\ calls # <<>> /\ LastCall.before # "dracula" /\ LastCall.after = "dracula"

-----------------------------------------------------------------------------
(* C10 *)

\* C10: after construction current is one of 'nord' and 'dracula', whatever
\* the storage entry restored at construction holds.
C10_TypeInvariant == constructed => current \in Themes

-----------------------------------------------------------------------------
(* C11 *)

\* C11 as stated: whenever the plugin has registered and no mutating call
\* is in progress, data-theme equals current.
C11_AsStated == (constructed /\ ~flushing) => dataTheme = current

\* C11, amended: whenever the plugin has registered and no reaction is
\* pending (the scheduler has flushed the jobs queued by the calls made so
\* far), data-theme equals current, and so does the value the watcher last
\* saw.
C11_Synced ==
    (constructed /\ Quiescent) => (dataTheme = current /\ watchOld = current)

C11_Witness ==
    /\ constructed /\ Quiescent
    /\ calls # <<>> /\ LastCall.before # LastCall.after
    /\ nFlushes >= 1
    /\ dataTheme = current /\ dataTheme # LastCall.attrBefore

-----------------------------------------------------------------------------
(* C12 *)

\* C12: a call of setTheme with a value outside {nord, dracula} is rejected
\* and leaves current, the persisted value and data-theme unchanged: the
\* value is never accepted as current.
C12_Rejects ==
    (calls # <<>> /\ LastCall.op = "setTheme" /\ LastCall.arg \notin Themes)
        => (current = LastCall.before /\ current # LastCall.arg)

-----------------------------------------------------------------------------
(* C13 *)

\* C13: with a storage that throws, the store is still constructed with
\* current = 'nord' (and data-theme is set to it); a call of setTheme or
\* toggleTheme still updates current, and the write that fails, in the
\* $subscribe job, changes nothing and does not stop the flush: the job is
\* removed and the jobs behind it stay queued.
C13_Degrades ==
    [][ /\ (~constructed /\ constructed' /\ ~storageOk)
            => (current' = "nord" /\ dataTheme' = "nord")
        /\ (CallStep /\ ~storageOk)
            => /\ calls'[Len(calls')].op = "setTheme"
                    => current' = calls'[Len(calls')].arg
               /\ calls'[Len(calls')].op = "toggleTheme"
                    => (current' # current /\ current' \in Themes)
        /\ (/\ constructed /\ constructed' /\ ~storageOk
            /\ queue # <<>> /\ Head(queue) = "persist" /\ Len(queue') < Len(queue))
            => /\ UNCHANGED <<storage, current, dataTheme, calls>>
               /\ queue' = Tail(queue)
      ]_vars

C13_Witness ==
    /\ constructed /\ Quiescent /\ ~storageOk
    /\ calls # <<>> /\ LastCall.before # LastCall.after
    /\ current = LastCall.after
    /\ nFlushes >= 1 /\ nWrites = 0
    /\ dataTheme = current
    /\ persistedCurrent # current

-----------------------------------------------------------------------------
(* C14 *)

\* C14: every call of toggleTheme turned 'nord' into 'dracula' and
\* 'dracula' into 'nord', left current at one of the two and never left it
\* unchanged; current is what the last call left.
C14_Flips ==
    /\ \A i \in 1..Len(calls) :
          calls[i].op = "toggleTheme" =>
              /\ calls[i].before = "nord" => calls[i].after = "dracula"
              /\ calls[i].before = "dracula" => calls[i].after = "nord"
              /\ calls[i].after # calls[i].before
              /\ calls[i].after \in Themes
    /\ (constructed /\ calls # <<>>) => current = LastCall.after

C14_Witness ==
    /\ Len(calls) >= 2
    /\ PrevCall.op = "toggleTheme" /\ PrevCall.before = "nord"
    /\ LastCall.op = "toggleTheme" /\ LastCall.before = "dracula"
    /\ current = "nord"

-----------------------------------------------------------------------------
(* C15 *)

\* the last call made on this page is a setTheme
LastSetTheme == calls # <<>> /\ LastCall.op = "setTheme"

\* C15 as stated: the state after setTheme(t) (and its reactions) is
\* determined by t alone: current, isdark, the persisted value and
\* data-theme are those of t whatever current was before.
C15_AsStated ==
    (constructed /\ Quiescent /\ LastSetTheme)
        => /\ current = LastCall.arg
           /\ isdark = (LastCall.arg = "dracula")
           /\ dataTheme = LastCall.arg
           /\ persistedCurrent = LastCall.arg

\* C15, amended: a setTheme(t) that follows a setTheme(t) changes nothing
\* (current, the queue, the storage, data-theme and what isdark reads are
\* as the first call left them).  Once the reactions have run, current,
\* isdark and data-theme are those of t whatever current was before; the
\* persisted value is t as well, unless current was 'nord' = t since the
\* store was built on a storage without `current`: then nothing has been
\* written.
C15_Idempotent ==
    [][ /\ (/\ CallStep /\ LastSetTheme
            /\ calls'[Len(calls')].op = "setTheme"
            /\ calls'[Len(calls')].arg = LastCall.arg)
            => /\ UNCHANGED <<current, queue, storage, dataTheme, watchOld>>
               /\ isdark' = isdark
        /\ (constructed /\ Quiescent /\ LastSetTheme)' =>
               /\ current' = LastCall'.arg
               /\ isdark' = (LastCall'.arg = "dracula")
               /\ dataTheme' = LastCall'.arg
               /\ \/ persistedCurrent' = LastCall'.arg
                  \/ /\ nWrites' = 0 /\ persistedCurrent' = Undefined
                     /\ LastCall'.arg = "nord"
      ]_vars

C15_Witness ==
    /\ constructed /\ Quiescent
    /\ Len(calls) >= 2
    /\ PrevCall.op = "setTheme" /\ LastCall.op = "setTheme"
    /\ PrevCall.arg = LastCall.arg
    /\ PrevCall.before # PrevCall.arg
    /\ current = LastCall.arg /\ dataTheme = LastCall.arg
    /\ persistedCurrent = LastCall.arg

-----------------------------------------------------------------------------
(* C16 *)

\* C16: when the storage holds a theme p for the store, the store the
\* plugin builds has current = p before the watcher is registered: the one
\* run of the callback at registration writes p to data-theme (the
\* attribute is not first set to the default).
C16_HydratedFirst ==
    (/\ constructed /\ calls = <<>>
     /\ hasItem(storage, StoreId) /\ persistedCurrent \in Themes)
        => /\ current = persistedCurrent
           /\ dataTheme = persistedCurrent
           /\ cbRuns = 1

C16_Witness ==
    /\ constructed /\ calls = <<>>
    /\ persistedCurrent = "dracula"
    /\ current = "dracula" /\ dataTheme = "dracula" /\ cbRuns = 1

-----------------------------------------------------------------------------
(* C17 *)

\* C17: current changes only in a step of setTheme or toggleTheme, at the
\* store's construction or when the page goes away; a run of the watcher's
\* callback after registration leaves current and the storage unchanged;
\* while the plugin is registered data-theme changes only in a run of the
\* callback, and never in a step of setTheme or toggleTheme.
C17_SingleWriter ==
    [][ /\ current' # current => (CallStep \/ constructed' # constructed)
        /\ (constructed /\ cbRuns' = cbRuns + 1) => UNCHANGED <<current, storage>>
        /\ (constructed /\ constructed' /\ dataTheme' # dataTheme)
            => (cbRuns' = cbRuns + 1 /\ ~CallStep)
        /\ CallStep => dataTheme' = dataTheme
      ]_vars

C17_Witness ==
    /\ constructed /\ Quiescent
    /\ calls # <<>> /\ LastCall.before # LastCall.after
    /\ cbRuns >= 2
    /\ dataTheme = LastCall.after /\ LastCall.attrBefore = LastCall.before

-----------------------------------------------------------------------------
(* C18 *)

\* the serialized object with the single member current, a theme
ThemeEntries == {{<<"current", t>>} : t \in Themes}

-----------------------------------------------------------------------------
(* C19 *)

\* C19: while the page lives, whenever data-theme differs from current
\* (a call changed current), data-theme eventually equals current again:
\* the watcher is never stopped and the scheduler runs the queued jobs.
C19_Eventually ==
    (constructed /\ dataTheme # current) ~> (~constructed \/ dataTheme = current)

C19_Witness ==
    /\ constructed /\ Quiescent
    /\ nFlushes >= 2 /\ cbRuns >= 3
    /\ dataTheme = current

-----------------------------------------------------------------------------
(* C20 *)

\* C20: the page starts with data-theme = 'light'; when the plugin
\* registers on a storage whose entry is absent or holds 'nord' or
\* 'dracula', data-theme becomes one of the two themes, and while the
\* plugin is registered a data-theme that is a theme stays one.
C20_AttrDomain ==
    [][ /\ (/\ ~constructed /\ constructed'
            /\ (~hasItem(storage, StoreId) \/ persistedCurrent \in Themes))
            => (dataTheme = "light" /\ dataTheme' \in Themes)
        /\ (constructed /\ constructed' /\ dataTheme \in Themes)
            => dataTheme' \in Themes
      ]_vars

C20_Witness ==
    /\ constructed /\ nReloads >= 1
    /\ prevSession.cur \in Themes
    /\ cbRuns >= 2
    /\ dataTheme \in Themes /\ dataTheme # "light"

-----------------------------------------------------------------------------
(* C21 *)

\* C21 as stated: once the reactions of a sequence of calls have run,
\* data-theme and the persisted value both equal the final current.
C21_AsStated ==
    (constructed /\ Quiescent /\ calls # <<>>)
        => (dataTheme = LastCall.after /\ persistedCurrent = LastCall.after)

\* C21, amended: once the reactions of a sequence of calls have run
\* (however many of the calls were made before the one flush), data-theme
\* equals the final current and shows no intermediate theme; the persisted
\* value equals the final current as well when a call on this page changed
\* current, also when current came back to its first value; when none did,
\* nothing has been written and the storage holds what the page found: the
\* same current, or no current with the default 'nord'.
C21_LastWriteWins ==
    (constructed /\ Quiescent /\ calls # <<>>) =>
        /\ current = LastCall.after
        /\ dataTheme = LastCall.after
        /\ ChangingCalls # {} => (nWrites >= 1 /\ persistedCurrent = LastCall.after)
        /\ ChangingCalls = {} =>
               /\ nWrites = 0
               /\ \/ persistedCurrent = LastCall.after
                  \/ persistedCurrent = Undefined /\ LastCall.after = "nord"

C21_Witness ==
    /\ constructed /\ Quiescent
    /\ Cardinality(ChangingCalls) >= 2
    /\ nFlushes = 1 /\ nWrites = 1
    /\ \E i \in ChangingCalls : calls[i].after # current
    /\ dataTheme = current /\ persistedCurrent = current

-----------------------------------------------------------------------------

TypeOK ==
    /\ constructed \in BOOLEAN
    /\ Len(calls) <= MaxCalls
    /\ nReloads <= MaxReloads
    /\ DOMAIN storage \subseteq {StoreId}

=============================================================================
